---- MODULE Spec2Model ----
(***************************************************************************)
(* ToadVault per-store inventory ledger (api-inventory InventoryProvider)  *)
(* and shared product catalog (api-product ProductController /             *)
(* ProductProvider), as state machines over MongoDB collections.           *)
(*                                                                         *)
(* Strings are tuples of one-character strings, so that length and         *)
(* character-class tests (the /^\d+$/ pattern, ObjectId.isValid) are       *)
(* computed.  JavaScript values are tagged records [t |-> type, v |-> x];  *)
(* numbers are held in tenths (Num(10) is 10, Dec(1, 5) is 1.5).           *)
(***************************************************************************)
EXTENDS Integers, Sequences, FiniteSets, TLC

(* ------------------------------ bounds --------------------------------- *)

\* add_item handler invocations in one behaviour
MaxCalls == 3

\* add_new_product handler invocations in one behaviour
MaxProductCalls == 3

(* --------------------------- strings, values --------------------------- *)

Digits == {"0", "1", "2", "3", "4", "5", "6", "7", "8", "9"}

HexChars == Digits \cup {"a", "b", "c", "d", "e", "f", "A", "B", "C", "D", "E", "F"}

Rep(c, n) == [i \in 1..n |-> c]

Str(s) == [t |-> "string", v |-> s]

Num(n) == [t |-> "number", v |-> 10 * n]

Dec(w, f) == [t |-> "number", v |-> 10 * w + f]

Arr(s) == [t |-> "array", v |-> s]

Obj(f) == [t |-> "object", v |-> f]

Date(n) == [t |-> "date", v |-> n]

Oid(h) == [t |-> "objectid", v |-> h]

Undefined == [t |-> "undefined", v |-> <<>>]

Null == [t |-> "null", v |-> <<>>]

\* obj.key, undefined when the key is absent
Get(obj, key) == IF key \in DOMAIN obj THEN obj[key] ELSE Undefined

\* /^\d+$/
MatchesDigits(s) == Len(s) >= 1 /\ \A i \in 1..Len(s) : s[i] \in Digits

\* the first non-empty message of a sequence of rule results ("" = rule passed)
RECURSIVE FirstError(_)
FirstError(msgs) ==
    IF msgs = <<>> THEN ""
    ELSE IF Head(msgs) # "" THEN Head(msgs)
    ELSE FirstError(Tail(msgs))

(* ------------------------------ Joi rules ------------------------------ *)

Quoted(label) == "\"" \o label \o "\""

\* Joi.string().required()
JoiStringRequired(x, label) ==
    IF x.t = "undefined" THEN Quoted(label) \o " is required"
    ELSE IF x.t # "string" THEN Quoted(label) \o " must be a string"
    ELSE IF x.v = <<>> THEN Quoted(label) \o " is not allowed to be empty"
    ELSE ""

\* the barcode rule without .pattern(/^\d+$/)
JoiDigitStringNoPattern(x, label) == JoiStringRequired(x, label)

\* Joi.string().pattern(/^\d+$/).messages({...}).required()
JoiDigitString(x, label) ==
    IF JoiStringRequired(x, label) # "" THEN JoiStringRequired(x, label)
    ELSE IF ~MatchesDigits(x.v) THEN "'" \o label \o "' must be a string of numbers"
    ELSE ""

\* Joi.string().allow('')
JoiStringAllowEmpty(x, label) ==
    IF x.t = "undefined" THEN ""
    ELSE IF x.t # "string" THEN Quoted(label) \o " must be a string"
    ELSE ""

\* Joi.number().required(); with Joi's default convert a numeric string passes
JoiNumberRequired(x, label) ==
    IF x.t = "undefined" THEN Quoted(label) \o " is required"
    ELSE IF x.t = "number" THEN ""
    ELSE IF x.t = "string" /\ MatchesDigits(x.v) THEN ""
    ELSE Quoted(label) \o " must be a number"

\* keys of an object the schema does not name: Joi rejects the first of them
UnknownKeys(obj, known) ==
    LET extra == DOMAIN obj \ known
    IN  IF extra = {} THEN ""
        ELSE Quoted(CHOOSE k \in extra : TRUE) \o " is not allowed"

\* Joi.object({ name: Joi.string().required() }) as an array item
JoiVariantItem(x, label) ==
    IF x.t # "object" THEN Quoted(label) \o " must be of type object"
    ELSE FirstError(<<
            JoiStringRequired(Get(x.v, "name"), label \o ".name"),
            IF DOMAIN x.v \ {"name"} = {} THEN ""
            ELSE Quoted(label \o "." \o (CHOOSE k \in DOMAIN x.v \ {"name"} : TRUE))
                     \o " is not allowed" >>)

\* Joi.array().items(Joi.object({...})).min(0)
JoiVariants(x, label) ==
    IF x.t = "undefined" THEN ""
    ELSE IF x.t # "array" THEN Quoted(label) \o " must be an array"
    ELSE FirstError([i \in 1..Len(x.v) |->
            JoiVariantItem(x.v[i], label \o "[" \o ToString(i - 1) \o "]")])

ItemKeys ==
    {"barcode", "name", "description", "price", "stock", "supplier", "variants"}

\* InventoryProvider.validateItemData
validateItemData(itemData) ==
    LET message == FirstError(<<
            JoiDigitString(Get(itemData, "barcode"), "barcode"),
            JoiStringRequired(Get(itemData, "name"), "name"),
            JoiStringAllowEmpty(Get(itemData, "description"), "description"),
            JoiNumberRequired(Get(itemData, "price"), "price"),
            JoiNumberRequired(Get(itemData, "stock"), "stock"),
            JoiStringAllowEmpty(Get(itemData, "supplier"), "supplier"),
            JoiVariants(Get(itemData, "variants"), "variants"),
            UnknownKeys(itemData, ItemKeys) >>)
    IN  IF message # "" THEN [success |-> FALSE, message |-> message]
        ELSE [success |-> TRUE]

\* instantiateItem with the constructor's price and stock arguments exchanged
instantiateItemSwapped(ItemData, date) ==
    [barcode     |-> Get(ItemData, "barcode"),
     name        |-> Get(ItemData, "name"),
     description |-> Get(ItemData, "description"),
     price       |-> Get(ItemData, "stock"),
     stock       |-> Get(ItemData, "price"),
     supplier    |-> Get(ItemData, "supplier"),
     created_at  |-> Date(date),
     updated_at  |-> Date(date),
     variants    |-> Get(ItemData, "variants")]

\* InventoryProvider.instantiateItem: new Inventory(..., new Date(), new Date(), ...)
instantiateItem(ItemData, date) ==
    [barcode     |-> Get(ItemData, "barcode"),
     name        |-> Get(ItemData, "name"),
     description |-> Get(ItemData, "description"),
     price       |-> Get(ItemData, "price"),
     stock       |-> Get(ItemData, "stock"),
     supplier    |-> Get(ItemData, "supplier"),
     created_at  |-> Date(date),
     updated_at  |-> Date(date),
     variants    |-> Get(ItemData, "variants")]

ProductKeys == {"barcode", "name", "description", "category_id"}

\* ProductProvider.validateProductData
validateProductData(productData) ==
    LET message == FirstError(<<
            JoiDigitString(Get(productData, "barcode"), "barcode"),
            JoiStringRequired(Get(productData, "name"), "name"),
            JoiStringRequired(Get(productData, "description"), "description"),
            JoiStringRequired(Get(productData, "category_id"), "category_id"),
            UnknownKeys(productData, ProductKeys) >>)
    IN  IF message # "" THEN [success |-> FALSE, message |-> message]
        ELSE [success |-> TRUE]

\* ProductProvider.instantiateProduct
instantiateProduct(productData, date) ==
    [barcode     |-> Get(productData, "barcode"),
     name        |-> Get(productData, "name"),
     description |-> Get(productData, "description"),
     category_id |-> Get(productData, "category_id"),
     created_at  |-> Date(date),
     updated_at  |-> Date(date),
     variants    |-> Arr(<<>>)]

(* ------------------------------ MongoDB -------------------------------- *)

\* ObjectId.isValid on a string: 24 hexadecimal characters
ObjectIdIsValid(s) == Len(s) = 24 /\ \A i \in 1..24 : s[i] \in HexChars

DigitChar(n) == CHOOSE d \in Digits : d = ToString(n)

\* the driver's generated _id: a fixed process part followed by a counter
ObjectIdHex(n) ==
    [i \in 1..24 |-> IF i = 1 THEN "6" ELSE IF i = 2 THEN "5"
                     ELSE IF i = 24 THEN DigitChar(n % 10) ELSE "0"]

\* one collection name for every store
collectionNameShared(storeId) == <<"inventory_store_">>

\* `inventory_store_${storeId}`
collectionName(storeId) == <<"inventory_store_">> \o storeId

\* collection.findOne({ [key]: value }): the first match in natural order, or null
findOne(docs, key, value) ==
    IF \E i \in 1..Len(docs) : Get(docs[i], key) = value
    THEN docs[CHOOSE i \in 1..Len(docs) :
                 /\ Get(docs[i], key) = value
                 /\ \A j \in 1..(i - 1) : Get(docs[j], key) # value]
    ELSE Null

\* insertOne on a capped collection of one document: the new document takes
\* the place of the old
insertOneCapped(docs, doc, oid) ==
    << [k \in DOMAIN doc \cup {"_id"} |->
           IF k = "_id" THEN Oid(oid)
           ELSE IF doc[k] = Undefined THEN Null ELSE doc[k]] >>

\* collection.insertOne(doc): the driver adds _id and writes an undefined field
\* as null; the document goes last
insertOne(docs, doc, oid) ==
    Append(docs, [k \in DOMAIN doc \cup {"_id"} |->
                     IF k = "_id" THEN Oid(oid)
                     ELSE IF doc[k] = Undefined THEN Null ELSE doc[k]])

\* updateOne with { $set: { stock: amount } } in place of $inc
updateOneSet(docs, key, value, amount) ==
    [i \in 1..Len(docs) |->
        IF /\ Get(docs[i], key) = value
           /\ \A j \in 1..(i - 1) : Get(docs[j], key) # value
        THEN [docs[i] EXCEPT !.stock = amount]
        ELSE docs[i]]

\* collection.updateOne({ [key]: value }, { $inc: { stock: amount } }):
\* the first match has amount added to its stock, atomically
updateOneInc(docs, key, value, amount) ==
    [i \in 1..Len(docs) |->
        IF /\ Get(docs[i], key) = value
           /\ \A j \in 1..(i - 1) : Get(docs[j], key) # value
        THEN [docs[i] EXCEPT !.stock = [t |-> "number", v |-> @.v + amount.v]]
        ELSE docs[i]]

\* find().toArray() with the newest document first
findAllNewestFirst(docs) == [i \in 1..Len(docs) |-> docs[Len(docs) + 1 - i]]

\* collection.find().toArray()
findAll(docs) == docs

(* ------------------------------- inputs -------------------------------- *)

StoreIds == {<<"7">>, <<"8">>}

CollectionNames == {collectionName(storeId) : storeId \in StoreIds}

Barcode1001 == <<"1", "0", "0", "1">>

\* a barcode of 24 digits
Barcode24 == Rep("1", 24)

Cola == <<"C", "o", "l", "a">>

ColaPayload(barcode, stock) ==
    [barcode |-> Str(barcode), name |-> Str(Cola), price |-> Dec(1, 5),
     stock |-> Num(stock)]

\* the item payloads an add_item event carries
ItemPayloads ==
    {ColaPayload(Barcode1001, 10),
     ColaPayload(Barcode1001, 5),
     ColaPayload(Barcode24, 5),
     [barcode |-> Str(Barcode1001), stock |-> Num(5)]}

\* the barcode_id strings a get_item_by_barcode_or_id event carries
BarcodeOrIds == {Barcode1001, Barcode24, ObjectIdHex(1)}

Calls == 1..MaxCalls

CategoryId == <<"c", "1">>

ProductPayload(barcode) ==
    [barcode |-> Str(barcode), name |-> Str(Cola), description |-> Str(Cola),
     category_id |-> Str(CategoryId)]

\* the product payloads an add_new_product event carries
ProductPayloads ==
    {ProductPayload(Barcode1001),
     ProductPayload(Barcode24),
     ProductPayload(<<"1", "2", "a", "4">>),
     [barcode |-> Str(Barcode1001), description |-> Str(Cola),
      category_id |-> Str(CategoryId)]}

ProductCalls == 1..MaxProductCalls

Barcode1234 == <<"1", "2", "3", "4">>

Barcode12a4 == <<"1", "2", "a", "4">>

\* an item payload with the given barcode value and stock in tenths
GatePayload(barcode, stock) ==
    [barcode |-> barcode, name |-> Str(Cola), price |-> Dec(1, 5),
     stock |-> [t |-> "number", v |-> stock]]

\* a payload with description and supplier the empty string
EmptyTextPayload ==
    [barcode |-> Str(Barcode1234), name |-> Str(Cola), description |-> Str(<<>>),
     price |-> Dec(1, 5), stock |-> Num(10), supplier |-> Str(<<>>)]

\* a payload with the given variants
VariantPayload(variants) ==
    [barcode |-> Str(Barcode1234), name |-> Str(Cola), price |-> Dec(1, 5),
     stock |-> Num(10), variants |-> Arr(variants)]

\* a variant as the entity declares it: name, price and stock
FullVariant == Obj([name |-> Str(Cola), price |-> Dec(1, 5), stock |-> Num(2)])

\* the item payloads validateItemData is applied to
GatePayloads ==
    {GatePayload(Str(Barcode1234), 100),
     GatePayload(Str(Barcode12a4), 100),
     GatePayload(Str(<<>>), 100),
     GatePayload(Num(1234), 100),
     [name |-> Str(Cola), price |-> Dec(1, 5), stock |-> Num(10)],
     [barcode |-> Str(Barcode1234), price |-> Dec(1, 5), stock |-> Num(10)],
     GatePayload(Str(Barcode1234), -30),
     GatePayload(Str(Barcode1234), 25),
     EmptyTextPayload,
     VariantPayload(<<Obj([name |-> Str(Cola)])>>),
     VariantPayload(<<FullVariant>>),
     VariantPayload(<<Obj([price |-> Dec(1, 5)])>>)}

Soda == <<"S", "o", "d", "a">>

\* a payload for barcode 1001 that differs from ColaPayload in every other field
SodaPayload ==
    [barcode |-> Str(Barcode1001), name |-> Str(Soda), description |-> Str(<<>>),
     price |-> Num(2), stock |-> Num(5), supplier |-> Str(Soda),
     variants |-> Arr(<<Obj([name |-> Str(Soda)])>>)]

\* the item payloads of add_item events for one barcode: two that differ in
\* every field but barcode, and one whose stock is -3
LedgerPayloads ==
    {ColaPayload(Barcode1001, 10), SodaPayload, GatePayload(Str(Barcode1001), -30)}

\* the catalog's product for barcode 1001: its name and description are not
\* those of the item payloads
SeedProducts ==
    {[barcode |-> Str(Barcode1001), name |-> Str(Soda), description |-> Str(Soda),
      category_id |-> Str(CategoryId)]}

\* item payloads for a barcode the catalog can hold and for one it never holds
SeedPayloads == {ColaPayload(Barcode1001, 10), ColaPayload(Barcode24, 5)}

\* the item payloads of add_item events while store operations may fail
FaultPayloads == {ColaPayload(Barcode1001, 10), ColaPayload(Barcode1001, 5)}

\* the item payloads of add_item events that run beside the queries
ReaderPayloads == {ColaPayload(Barcode1001, 5)}

\* the barcode_id strings of the get_item events that run beside add_item: a
\* barcode and an identifier
ReaderIds == {Barcode1001, ObjectIdHex(1)}

(* ------------------------------- state --------------------------------- *)

VARIABLES
    inventory_db,   \* inventory_db: collection name -> documents in natural order
    calls,          \* the add_item handler invocations
    query,          \* the last get_inventory / get_item_by_barcode_or_id and its reply
    now,            \* the clock new Date() reads
    oidCounter,     \* the inventory service's ObjectId counter
    base,           \* inventory_db when the running add_item calls began
    applied,        \* per collection and barcode, the calls ended since and their stock
    products,       \* prodcuts_db: the products collection, in natural order
    productCalls,   \* the add_new_product handler invocations
    productOids     \* the product service's ObjectId counter

ledgerVars == <<inventory_db, calls, query, oidCounter, base, applied>>

catalogVars == <<products, productCalls, productOids>>

vars == <<inventory_db, calls, query, now, oidCounter, base, applied,
          products, productCalls, productOids>>

IdleCall ==
    [pc |-> "idle", storeId |-> <<>>, payload |-> <<>>, itemData |-> Undefined,
     product |-> Undefined, reply |-> Undefined]

NoQuery ==
    [op |-> "none", storeId |-> <<>>, barcode_id |-> <<>>, read |-> <<>>,
     reply |-> Undefined]

IdleProductCall ==
    [pc |-> "idle", payload |-> <<>>, productData |-> Undefined,
     product |-> Undefined, response |-> Undefined, reply |-> Undefined]

BarcodeValues == {p.barcode : p \in ItemPayloads}

NothingApplied ==
    [n \in CollectionNames |-> [b \in BarcodeValues |-> [calls |-> 0, stock |-> 0]]]

Init ==
    /\ inventory_db = [n \in CollectionNames |-> <<>>]
    /\ calls = [c \in Calls |-> IdleCall]
    /\ query = NoQuery
    /\ now = 1
    /\ oidCounter = 1
    /\ base = [n \in CollectionNames |-> <<>>]
    /\ applied = NothingApplied
    /\ products = <<>>
    /\ productCalls = [c \in ProductCalls |-> IdleProductCall]
    /\ productOids = 1

InFlight(c) == calls[c].pc \in {"findOne", "insertOne", "updateOne"}

Quiescent == \A c \in Calls : ~InFlight(c)

(* ------------------------- add_item: the handler ----------------------- *)

\* Event ingress for add_item: validate, instantiate, delegate to addItem
AddItemRequest(c, storeId, payload) ==
    /\ calls[c].pc = "idle"
    /\ \A d \in Calls : d < c => calls[d].pc # "idle"
    /\ LET validation == validateItemData(payload)
       IN  IF ~validation.success
           THEN /\ calls' = [calls EXCEPT ![c] =
                        [IdleCall EXCEPT !.pc = "done", !.storeId = storeId,
                                         !.payload = payload, !.reply = validation]]
                /\ UNCHANGED <<base, applied>>
           ELSE /\ calls' = [calls EXCEPT ![c] =
                        [IdleCall EXCEPT !.pc = "findOne", !.storeId = storeId,
                                         !.payload = payload,
                                         !.itemData = instantiateItem(payload, now)]]
                /\ base' = IF Quiescent THEN inventory_db ELSE base
                /\ applied' = IF Quiescent THEN NothingApplied ELSE applied
    /\ now' = now + 1
    /\ UNCHANGED <<inventory_db, query, oidCounter, catalogVars>>

\* addItem: const product = await productsCollection.findOne({ barcode })
AddItemFindOne(c) ==
    /\ calls[c].pc = "findOne"
    /\ LET docs    == inventory_db[collectionName(calls[c].storeId)]
           product == findOne(docs, "barcode", calls[c].itemData.barcode)
       IN  calls' = [calls EXCEPT ![c].product = product,
                                  ![c].pc = IF product = Null THEN "insertOne"
                                            ELSE "updateOne"]
    /\ UNCHANGED <<inventory_db, query, now, oidCounter, base, applied, catalogVars>>

\* the insert branch followed by the increment: insertOne, then updateOne $inc
AddItemInsertThenInc(c) ==
    /\ calls[c].pc = "insertOne"
    /\ LET name == collectionName(calls[c].storeId)
           item == calls[c].itemData
       IN  /\ inventory_db' = [inventory_db EXCEPT
                  ![name] = updateOneInc(insertOne(@, item, ObjectIdHex(oidCounter)),
                                         "barcode", item.barcode, item.stock)]
           /\ applied' = [applied EXCEPT ![name][item.barcode] =
                  [calls |-> @.calls + 1, stock |-> @.stock + item.stock.v]]
    /\ oidCounter' = oidCounter + 1
    /\ calls' = [calls EXCEPT ![c].pc = "done",
                              ![c].reply = [success |-> TRUE,
                                            message |-> "Item added successfully"]]
    /\ UNCHANGED <<query, now, base, catalogVars>>

\* addItem: if (!product) await productsCollection.insertOne(itemData); return
AddItemInsertOne(c) ==
    /\ calls[c].pc = "insertOne"
    /\ LET name == collectionName(calls[c].storeId)
           item == calls[c].itemData
       IN  /\ inventory_db' = [inventory_db EXCEPT
                  ![name] = insertOne(@, item, ObjectIdHex(oidCounter))]
           /\ applied' = [applied EXCEPT ![name][item.barcode] =
                  [calls |-> @.calls + 1, stock |-> @.stock + item.stock.v]]
    /\ oidCounter' = oidCounter + 1
    /\ calls' = [calls EXCEPT ![c].pc = "done",
                              ![c].reply = [success |-> TRUE,
                                            message |-> "Item added successfully"]]
    /\ UNCHANGED <<query, now, base, catalogVars>>

\* the increment done in the service: the stock read by findOne plus the
\* payload's, written back with $set
AddItemUpdateOneReadModifyWrite(c) ==
    /\ calls[c].pc = "updateOne"
    /\ LET name == collectionName(calls[c].storeId)
           item == calls[c].itemData
           sum  == [t |-> "number", v |-> calls[c].product.stock.v + item.stock.v]
       IN  /\ inventory_db' = [inventory_db EXCEPT
                  ![name] = updateOneSet(@, "barcode", item.barcode, sum)]
           /\ applied' = [applied EXCEPT ![name][item.barcode] =
                  [calls |-> @.calls + 1, stock |-> @.stock + item.stock.v]]
    /\ calls' = [calls EXCEPT ![c].pc = "done",
                              ![c].reply = [success |-> TRUE,
                                            message |-> "Item added successfully"]]
    /\ UNCHANGED <<query, now, oidCounter, base, catalogVars>>

\* the increment written as a $set of the whole item, its stock the sum
AddItemUpdateOneSetItem(c) ==
    /\ calls[c].pc = "updateOne"
    /\ LET name == collectionName(calls[c].storeId)
           item == calls[c].itemData
           docs == inventory_db[name]
           set(doc) ==
               [k \in DOMAIN doc |->
                   IF k = "_id" THEN doc[k]
                   ELSE IF k = "stock"
                   THEN [t |-> "number", v |-> doc[k].v + item.stock.v]
                   ELSE IF item[k] = Undefined THEN Null ELSE item[k]]
       IN  /\ inventory_db' = [inventory_db EXCEPT ![name] =
                  [i \in 1..Len(docs) |->
                      IF /\ docs[i].barcode = item.barcode
                         /\ \A j \in 1..(i - 1) : docs[j].barcode # item.barcode
                      THEN set(docs[i]) ELSE docs[i]]]
           /\ applied' = [applied EXCEPT ![name][item.barcode] =
                  [calls |-> @.calls + 1, stock |-> @.stock + item.stock.v]]
    /\ calls' = [calls EXCEPT ![c].pc = "done",
                              ![c].reply = [success |-> TRUE,
                                            message |-> "Item added successfully"]]
    /\ UNCHANGED <<query, now, oidCounter, base, catalogVars>>

\* addItem: else await productsCollection.updateOne({barcode}, {$inc: {stock}}); return
AddItemUpdateOne(c) ==
    /\ calls[c].pc = "updateOne"
    /\ LET name == collectionName(calls[c].storeId)
           item == calls[c].itemData
       IN  /\ inventory_db' = [inventory_db EXCEPT
                  ![name] = updateOneInc(@, "barcode", item.barcode, item.stock)]
           /\ applied' = [applied EXCEPT ![name][item.barcode] =
                  [calls |-> @.calls + 1, stock |-> @.stock + item.stock.v]]
    /\ calls' = [calls EXCEPT ![c].pc = "done",
                              ![c].reply = [success |-> TRUE,
                                            message |-> "Item added successfully"]]
    /\ UNCHANGED <<query, now, oidCounter, base, catalogVars>>

\* the error a rejected store operation throws
Thrown == [t |-> "error", v |-> <<>>]

\* addItem with each await in try/catch: the error is dropped and the call
\* goes on to return { success: true }
AddItemFaultSwallowed(c) ==
    /\ InFlight(c)
    /\ calls' = [calls EXCEPT ![c].pc = "done",
                              ![c].reply = [success |-> TRUE,
                                            message |-> "Item added successfully"]]
    /\ UNCHANGED <<inventory_db, query, now, oidCounter, base, applied, catalogVars>>

\* addItem: the awaited findOne, insertOne or updateOne rejects, having written
\* nothing; addItem has no try/catch, so its own promise rejects with the error
AddItemFault(c) ==
    /\ InFlight(c)
    /\ calls' = [calls EXCEPT ![c].pc = "failed", ![c].reply = Thrown]
    /\ UNCHANGED <<inventory_db, query, now, oidCounter, base, applied, catalogVars>>

(* ------------------------------- queries ------------------------------- *)

\* InventoryProvider.getInventory
getInventory(db, storeId) ==
    [success |-> TRUE, message |-> "Items retrieved successfully",
     products |-> findAll(db[collectionName(storeId)])]

\* getItemByBarcodeOrID replying with a product field, null, when nothing matches
getItemNullProduct(db, storeId, barcode_id) ==
    LET docs    == db[collectionName(storeId)]
        product == IF ~ObjectIdIsValid(barcode_id)
                   THEN findOne(docs, "barcode", Str(barcode_id))
                   ELSE findOne(docs, "_id", Oid(barcode_id))
    IN  IF product = Null
        THEN [success |-> FALSE, message |-> "Item not found", product |-> Null]
        ELSE [success |-> TRUE, message |-> "Item retrieved successfully",
              product |-> product]

\* getItemByBarcodeOrID trying the barcode when no _id matches
getItemWithFallback(db, storeId, barcode_id) ==
    LET docs      == db[collectionName(storeId)]
        byBarcode == findOne(docs, "barcode", Str(barcode_id))
        byId      == findOne(docs, "_id", Oid(barcode_id))
        product   == IF ObjectIdIsValid(barcode_id) /\ byId # Null THEN byId
                     ELSE byBarcode
    IN  IF product = Null
        THEN [success |-> FALSE, message |-> "Item not found"]
        ELSE [success |-> TRUE, message |-> "Item retrieved successfully",
              product |-> product]

\* InventoryProvider.getItemByBarcodeOrID
getItemByBarcodeOrID(db, storeId, barcode_id) ==
    LET docs == db[collectionName(storeId)]
    IN  IF ~ObjectIdIsValid(barcode_id)
        THEN LET product == findOne(docs, "barcode", Str(barcode_id))
             IN  IF product = Null
                 THEN [success |-> FALSE, message |-> "Item not found"]
                 ELSE [success |-> TRUE, message |-> "Item retrieved successfully",
                       product |-> product]
        ELSE LET product == findOne(docs, "_id", Oid(barcode_id))
             IN  IF product = Null
                 THEN [success |-> FALSE, message |-> "Item not found"]
                 ELSE [success |-> TRUE, message |-> "Item retrieved successfully",
                       product |-> product]

\* get_inventory(storeId)
GetInventory(storeId) ==
    /\ query' = [op |-> "get_inventory", storeId |-> storeId, barcode_id |-> <<>>,
                 read |-> inventory_db[collectionName(storeId)],
                 reply |-> getInventory(inventory_db, storeId)]
    /\ UNCHANGED <<inventory_db, calls, now, oidCounter, base, applied, catalogVars>>

\* get_item_by_barcode_or_id(storeId, barcode_id)
GetItem(storeId, barcode_id) ==
    /\ query' = [op |-> "get_item", storeId |-> storeId, barcode_id |-> barcode_id,
                 read |-> inventory_db[collectionName(storeId)],
                 reply |-> getItemByBarcodeOrID(inventory_db, storeId, barcode_id)]
    /\ UNCHANGED <<inventory_db, calls, now, oidCounter, base, applied, catalogVars>>

(* --------------------- add_new_product: the handler -------------------- *)

\* createProduct delegating without looking at the validation result
createProductNoGate(c, productData) ==
    /\ productCalls[c].pc = "idle"
    /\ \A d \in ProductCalls : d < c => productCalls[d].pc # "idle"
    /\ productCalls' = [productCalls EXCEPT ![c] =
           [IdleProductCall EXCEPT !.pc = "findOne", !.payload = productData,
               !.productData = instantiateProduct(productData, now)]]
    /\ now' = now + 1
    /\ UNCHANGED <<products, productOids, ledgerVars>>

\* ProductController.createProduct up to its await: validate, instantiate, delegate
createProduct(c, productData) ==
    /\ productCalls[c].pc = "idle"
    /\ \A d \in ProductCalls : d < c => productCalls[d].pc # "idle"
    /\ LET validation == validateProductData(productData)
       IN  IF ~validation.success
           THEN productCalls' = [productCalls EXCEPT ![c] =
                    [IdleProductCall EXCEPT !.pc = "done", !.payload = productData,
                                            !.reply = validation]]
           ELSE productCalls' = [productCalls EXCEPT ![c] =
                    [IdleProductCall EXCEPT !.pc = "findOne", !.payload = productData,
                        !.productData = instantiateProduct(productData, now)]]
    /\ now' = now + 1
    /\ UNCHANGED <<products, productOids, ledgerVars>>

\* addProduct without the if (product) return: the insert follows every lookup
AddProductFindOneNoCheck(c) ==
    /\ productCalls[c].pc = "findOne"
    /\ LET product == findOne(products, "barcode", productCalls[c].productData.barcode)
       IN  productCalls' = [productCalls EXCEPT ![c].product = product,
                                                ![c].pc = "insertOne"]
    /\ UNCHANGED <<products, productOids, now, ledgerVars>>

\* addProduct: const product = await findOne({ barcode }); if (product) return {...}
AddProductFindOne(c) ==
    /\ productCalls[c].pc = "findOne"
    /\ LET product == findOne(products, "barcode", productCalls[c].productData.barcode)
           exists  == [success |-> FALSE,
                       message |-> "Product with this barcode already exists"]
       IN  productCalls' = [productCalls EXCEPT
               ![c].product = product,
               ![c].pc = IF product # Null THEN "done" ELSE "insertOne",
               ![c].response = IF product # Null THEN exists ELSE @,
               ![c].reply = IF product # Null THEN exists ELSE @]
    /\ UNCHANGED <<products, productOids, now, ledgerVars>>

\* addProduct: await productsCollection.insertOne(productData); return {...}
AddProductInsertOne(c) ==
    /\ productCalls[c].pc = "insertOne"
    /\ products' = insertOne(products, productCalls[c].productData,
                             ObjectIdHex(productOids))
    /\ productOids' = productOids + 1
    /\ LET added == [success |-> TRUE, message |-> "Product added successfully"]
       IN  productCalls' = [productCalls EXCEPT ![c].pc = "done",
                                                ![c].response = added,
                                                ![c].reply = added]
    /\ UNCHANGED <<now, ledgerVars>>

(* ---------------------------- specifications --------------------------- *)

AddItemStep(c) == AddItemFindOne(c) \/ AddItemInsertOne(c) \/ AddItemUpdateOne(c)

\* every handler of both services, interleaved at its awaits
Next ==
    \/ \E c \in Calls, storeId \in StoreIds, payload \in ItemPayloads :
           AddItemRequest(c, storeId, payload)
    \/ \E c \in Calls : AddItemFindOne(c)
    \/ \E c \in Calls : AddItemInsertOne(c)
    \/ \E c \in Calls : AddItemUpdateOne(c)
    \/ \E storeId \in StoreIds : GetInventory(storeId)
    \/ \E storeId \in StoreIds, barcode_id \in BarcodeOrIds : GetItem(storeId, barcode_id)
    \/ \E c \in ProductCalls, productData \in ProductPayloads :
           createProduct(c, productData)
    \/ \E c \in ProductCalls : AddProductFindOne(c)
    \/ \E c \in ProductCalls : AddProductInsertOne(c)

Spec == Init /\ [][Next]_vars

\* the add_item handlers, running concurrently
NextAddItem ==
    \/ \E c \in Calls, storeId \in StoreIds, payload \in ItemPayloads :
           AddItemRequest(c, storeId, payload)
    \/ \E c \in Calls : AddItemFindOne(c)
    \/ \E c \in Calls : AddItemInsertOne(c)
    \/ \E c \in Calls : AddItemUpdateOne(c)

SpecAddItem == Init /\ [][NextAddItem]_vars

\* the inventory handlers with one add_item at a time: an add_item event is
\* taken up only when no other add_item call is in flight
NextSerial ==
    \/ \E c \in Calls, storeId \in StoreIds, payload \in ItemPayloads :
           Quiescent /\ AddItemRequest(c, storeId, payload)
    \/ \E c \in Calls : AddItemFindOne(c)
    \/ \E c \in Calls : AddItemInsertOne(c)
    \/ \E c \in Calls : AddItemUpdateOne(c)
    \/ \E storeId \in StoreIds : GetInventory(storeId)
    \/ \E storeId \in StoreIds, barcode_id \in BarcodeOrIds : GetItem(storeId, barcode_id)

SpecSerial == Init /\ [][NextSerial]_vars

\* the add_new_product handlers, running concurrently
NextCatalog ==
    \/ \E c \in ProductCalls, productData \in ProductPayloads :
           createProduct(c, productData)
    \/ \E c \in ProductCalls : AddProductFindOne(c)
    \/ \E c \in ProductCalls : AddProductInsertOne(c)

SpecCatalog == Init /\ [][NextCatalog]_vars

\* the validation gate alone: validateItemData applied to each payload
NextGate ==
    \E c \in Calls, storeId \in StoreIds, payload \in GatePayloads :
        AddItemRequest(c, storeId, payload)

SpecGate == Init /\ [][NextGate]_vars

\* the add_item handlers, running concurrently, on payloads for one barcode
NextLedger ==
    \/ \E c \in Calls, storeId \in StoreIds, payload \in LedgerPayloads :
           AddItemRequest(c, storeId, payload)
    \/ \E c \in Calls : AddItemFindOne(c)
    \/ \E c \in Calls : AddItemInsertOne(c)
    \/ \E c \in Calls : AddItemUpdateOne(c)

SpecLedger == Init /\ [][NextLedger]_vars

CatalogQuiescent ==
    \A c \in ProductCalls : productCalls[c].pc \notin {"findOne", "insertOne"}

\* both services, one event at a time: add_new_product fills the catalog,
\* add_item writes the store collections
NextSeed ==
    \/ \E c \in ProductCalls, productData \in SeedProducts :
           Quiescent /\ CatalogQuiescent /\ createProduct(c, productData)
    \/ \E c \in ProductCalls : AddProductFindOne(c)
    \/ \E c \in ProductCalls : AddProductInsertOne(c)
    \/ \E c \in Calls, storeId \in StoreIds, payload \in SeedPayloads :
           Quiescent /\ CatalogQuiescent /\ AddItemRequest(c, storeId, payload)
    \/ \E c \in Calls : AddItemFindOne(c)
    \/ \E c \in Calls : AddItemInsertOne(c)
    \/ \E c \in Calls : AddItemUpdateOne(c)

SpecSeed == Init /\ [][NextSeed]_vars

\* the add_item handlers, running concurrently, any store operation of which
\* may fail
NextFaults ==
    \/ \E c \in Calls, storeId \in StoreIds, payload \in FaultPayloads :
           AddItemRequest(c, storeId, payload)
    \/ \E c \in Calls : AddItemFindOne(c)
    \/ \E c \in Calls : AddItemInsertOne(c)
    \/ \E c \in Calls : AddItemUpdateOne(c)
    \/ \E c \in Calls : AddItemFault(c)

SpecFaults == Init /\ [][NextFaults]_vars

\* the inventory handlers, running concurrently: add_item calls interleaved
\* with each other and with the queries
NextReaders ==
    \/ \E c \in Calls, storeId \in StoreIds, payload \in ReaderPayloads :
           AddItemRequest(c, storeId, payload)
    \/ \E c \in Calls : AddItemFindOne(c)
    \/ \E c \in Calls : AddItemInsertOne(c)
    \/ \E c \in Calls : AddItemUpdateOne(c)
    \/ \E storeId \in StoreIds : GetInventory(storeId)
    \/ \E storeId \in StoreIds, barcode_id \in ReaderIds : GetItem(storeId, barcode_id)

SpecReaders == Init /\ [][NextReaders]_vars

\* the add_new_product handlers, one at a time: an event is taken up only when
\* no other addProduct call is in flight
NextCatalogSerial ==
    \/ \E c \in ProductCalls, productData \in ProductPayloads :
           CatalogQuiescent /\ createProduct(c, productData)
    \/ \E c \in ProductCalls : AddProductFindOne(c)
    \/ \E c \in ProductCalls : AddProductInsertOne(c)

SpecCatalogSerial == Init /\ [][NextCatalogSerial]_vars

(* ------------------------------- claims -------------------------------- *)

Docs(storeId) == inventory_db[collectionName(storeId)]

Done(c) == calls[c].pc = "done"

Succeeded(c) == Done(c) /\ calls[c].reply.success

\* C1: every reachable collection holds at most one record per barcode, and no
\* two add_item calls for the same store and barcode have both executed the
\* insert branch (findOne returned null to both, and both inserted).
C1_UniqueBarcode ==
    /\ \A n \in CollectionNames : \A i, j \in 1..Len(inventory_db[n]) :
           inventory_db[n][i].barcode = inventory_db[n][j].barcode => i = j
    /\ \A c, d \in Calls :
           (/\ c # d
            /\ Done(c) /\ calls[c].product = Null
            /\ Done(d) /\ calls[d].product = Null
            /\ calls[c].storeId = calls[d].storeId
            /\ calls[c].itemData.barcode = calls[d].itemData.barcode) => FALSE

\* C2: when the add_item calls that began while a barcode was present with
\* stock s have all ended, the barcode has as many records as before, the
\* store has as many records as before if every call was for a barcode then
\* present, and the record's stock is s plus the stock of every call ended.
C2_NoLostUpdate ==
    Quiescent =>
        \A n \in CollectionNames : \A b \in BarcodeValues :
            LET before == findOne(base[n], "barcode", b)
                after  == findOne(inventory_db[n], "barcode", b)
                Same(docs) == {i \in 1..Len(docs) : docs[i].barcode = b}
            IN  before # Null =>
                    /\ after # Null
                    /\ Cardinality(Same(inventory_db[n])) = Cardinality(Same(base[n]))
                    /\ after.stock.v = before.stock.v + applied[n][b].stock
                    /\ (\A o \in BarcodeValues :
                            applied[n][o].calls > 0 => findOne(base[n], "barcode", o) # Null)
                       => Len(inventory_db[n]) = Len(base[n])

\* two overlapping add_item calls on a barcode that was present have both ended
C2_Witness ==
    /\ Quiescent
    /\ \E n \in CollectionNames : \E b \in BarcodeValues :
           /\ findOne(base[n], "barcode", b) # Null
           /\ applied[n][b].calls >= 2

\* the add_item call taken up last
LastCall(c) == calls[c].pc # "idle" /\ \A d \in Calls : d > c => calls[d].pc = "idle"

\* C3: a single add_item call, run with no other call in flight, for a valid
\* payload whose barcode has no record in the store returns success and adds
\* exactly one record, which carries the payload's barcode and stock; the
\* records already there stay as they were.
C3_InsertsOneRecord ==
    \A c \in Calls :
        LET before == base[collectionName(calls[c].storeId)]
            after  == Docs(calls[c].storeId)
        IN  (/\ LastCall(c) /\ Done(c)
             /\ validateItemData(calls[c].payload).success
             /\ \A i \in 1..Len(before) : before[i].barcode # calls[c].payload.barcode)
            => /\ calls[c].reply.success = TRUE
               /\ Len(after) = Len(before) + 1
               /\ SubSeq(after, 1, Len(before)) = before
               /\ after[Len(after)].barcode = calls[c].payload.barcode
               /\ after[Len(after)].stock = calls[c].payload.stock

\* a call for a barcode new to a store that already holds a record has ended
C3_Witness ==
    \E c \in Calls :
        LET before == base[collectionName(calls[c].storeId)]
        IN  /\ LastCall(c) /\ Done(c)
            /\ validateItemData(calls[c].payload).success
            /\ Len(before) >= 1
            /\ \A i \in 1..Len(before) : before[i].barcode # calls[c].payload.barcode

Store7 == <<"7">>

OnlyCalls(k) == \A c \in Calls : c > k => calls[c].pc = "idle"

Ran(c, storeId, payload) ==
    Done(c) /\ calls[c].storeId = storeId /\ calls[c].payload = payload

OneRecordWithStock(storeId, stock) ==
    Len(Docs(storeId)) = 1 /\ Docs(storeId)[1].stock = Num(stock)

BarePayload == [barcode |-> Str(Barcode1001), stock |-> Num(5)]

\* C4, first half: the add of the whole payload alone succeeds and leaves one
\* record with stock 10.
C4_FirstAdd ==
    (Ran(1, Store7, ColaPayload(Barcode1001, 10)) /\ OnlyCalls(1))
        => calls[1].reply.success /\ OneRecordWithStock(Store7, 10)

\* C4 as stated: on store "7", add {barcode "1001", name "Cola", price 1.5,
\* stock 10} succeeds and leaves one record with stock 10; a following add of
\* {barcode "1001", stock 5} succeeds and leaves one record with stock 15.
C4_Scenario ==
    /\ C4_FirstAdd
    /\ (/\ Ran(1, Store7, ColaPayload(Barcode1001, 10))
        /\ Ran(2, Store7, BarePayload) /\ OnlyCalls(2))
       => /\ calls[2].reply.success
          /\ OneRecordWithStock(Store7, 15)

\* C4 amended: the first add as stated; a following add of a whole payload
\* {barcode "1001", name "Cola", price 1.5, stock 5} succeeds and leaves one
\* record with stock 15, while the payload {barcode "1001", stock 5} is
\* rejected by the validation gate ("name" is required) and the record keeps
\* stock 10.
C4_ScenarioAmended ==
    /\ C4_FirstAdd
    /\ (/\ Ran(1, Store7, ColaPayload(Barcode1001, 10))
        /\ Ran(2, Store7, ColaPayload(Barcode1001, 5)) /\ OnlyCalls(2))
       => /\ calls[2].reply.success
          /\ OneRecordWithStock(Store7, 15)
    /\ (/\ Ran(1, Store7, ColaPayload(Barcode1001, 10))
        /\ Ran(2, Store7, BarePayload) /\ OnlyCalls(2))
       => /\ calls[2].reply = [success |-> FALSE, message |-> "\"name\" is required"]
          /\ OneRecordWithStock(Store7, 10)

\* both adds of the amended scenario have ended
C4_Witness ==
    /\ Ran(1, Store7, ColaPayload(Barcode1001, 10))
    /\ Ran(2, Store7, ColaPayload(Barcode1001, 5))
    /\ OnlyCalls(2)

RECURSIVE SumStock(_)
SumStock(cs) ==
    IF cs = {} THEN 0
    ELSE LET c == CHOOSE x \in cs : TRUE
         IN  calls[c].payload.stock.v + SumStock(cs \ {c})

\* the add_item calls that succeeded for a store and barcode
Added(storeId, barcode) ==
    {c \in Calls : /\ Succeeded(c)
                   /\ calls[c].storeId = storeId
                   /\ calls[c].payload.barcode = Str(barcode)}

\* C5: after a successful add_item for store s and barcode b, a following
\* get_item(s, b) returns success with the record whose barcode is b and
\* whose stock is the sum of the stocks added for b in s.
C5_RoundTrip ==
    [][\A storeId \in StoreIds : \A b \in BarcodeOrIds :
          (GetItem(storeId, b) /\ Added(storeId, b) # {})
          => /\ query'.reply.success
             /\ query'.reply.product.barcode = Str(b)
             /\ query'.reply.product.stock.v = SumStock(Added(storeId, b))]_vars

\* C6: a step of an add_item call on store A leaves the collection of every
\* other store B as it was, and with it what get_inventory(B) and
\* get_item(B, x) return.
C6_StoreIsolation ==
    [][\A c \in Calls :
          AddItemStep(c) =>
              \A B \in StoreIds \ {calls[c].storeId} :
                  /\ inventory_db'[collectionName(B)] = inventory_db[collectionName(B)]
                  /\ getInventory(inventory_db', B) = getInventory(inventory_db, B)
                  /\ \A x \in BarcodeOrIds :
                         getItemByBarcodeOrID(inventory_db', B, x)
                             = getItemByBarcodeOrID(inventory_db, B, x)]_vars

\* add_item calls have written to two stores, the later one while the other
\* store held a record
C6_Witness ==
    \E c, d \in Calls :
        /\ c < d /\ Succeeded(c) /\ Succeeded(d)
        /\ calls[c].storeId # calls[d].storeId
        /\ Len(Docs(calls[c].storeId)) >= 1
        /\ Len(Docs(calls[d].storeId)) >= 1

\* no document matches x, as barcode or as _id
NoMatch(docs, x) ==
    \A i \in 1..Len(docs) : docs[i].barcode # Str(x) /\ docs[i]._id # Oid(x)

\* C7: get_item(storeId, x) with no record of the store matching x, as
\* barcode or as identifier, replies exactly {success: false, message: "Item
\* not found"}, whatever the shape of x, and leaves the store unchanged.
C7_NotFound ==
    [][\A storeId \in StoreIds : \A x \in BarcodeOrIds :
          (GetItem(storeId, x) /\ NoMatch(Docs(storeId), x))
          => /\ query'.reply = [success |-> FALSE, message |-> "Item not found"]
             /\ inventory_db' = inventory_db]_vars

\* an identifier-shaped x was looked up in a store that holds records, none
\* of which matches
C7_Witness ==
    /\ query.op = "get_item"
    /\ ObjectIdIsValid(query.barcode_id)
    /\ Len(query.read) >= 1
    /\ NoMatch(query.read, query.barcode_id)
    /\ query.reply.success = FALSE

\* C8: get_item with an identifier-shaped string matches records on _id only,
\* with any other string on barcode only.
C8_Dispatch ==
    [][\A storeId \in StoreIds : \A x \in BarcodeOrIds :
          GetItem(storeId, x) =>
              LET docs == Docs(storeId)
                  r    == query'.reply
              IN  IF ObjectIdIsValid(x)
                  THEN /\ r.success <=> \E i \in 1..Len(docs) : docs[i]._id = Oid(x)
                       /\ r.success => r.product._id = Oid(x)
                  ELSE /\ r.success <=> \E i \in 1..Len(docs) : docs[i].barcode = Str(x)
                       /\ r.success => r.product.barcode = Str(x)]_vars

\* an identifier-shaped x that is the barcode of a record, and no record's
\* _id, was looked up and not found
C8_Witness ==
    /\ query.op = "get_item"
    /\ ObjectIdIsValid(query.barcode_id)
    /\ \E i \in 1..Len(query.read) : query.read[i].barcode = Str(query.barcode_id)
    /\ \A i \in 1..Len(query.read) : query.read[i]._id # Oid(query.barcode_id)
    /\ query.reply.success = FALSE

\* the place of an _id in the order the driver generated them
OidOrder(id) == CHOOSE k \in 1..oidCounter : id = Oid(ObjectIdHex(k))

\* C9: get_inventory(storeId) replies success with exactly the records of the
\* store's collection, in the order they were inserted, and with an empty
\* list when no add_item has completed on the store.
C9_GetInventory ==
    [][\A storeId \in StoreIds :
          GetInventory(storeId) =>
              LET r == query'.reply
              IN  /\ r.success = TRUE
                  /\ Len(r.products) = Len(Docs(storeId))
                  /\ \A i \in 1..Len(r.products) :
                         \E j \in 1..Len(Docs(storeId)) : r.products[i] = Docs(storeId)[j]
                  /\ \A i, j \in 1..Len(r.products) :
                         i < j => OidOrder(r.products[i]._id) < OidOrder(r.products[j]._id)
                  /\ (\A c \in Calls : ~(Succeeded(c) /\ calls[c].storeId = storeId))
                     => r.products = <<>>]_vars

\* get_inventory replied with two records
C9_Witness ==
    /\ query.op = "get_inventory"
    /\ query.reply.success = TRUE
    /\ Len(query.reply.products) >= 2
    /\ query.reply.products = query.read

\* C10: add_new_product with a payload that fails validation replies with the
\* validation result and issues no lookup and no insert; with a valid payload
\* it delegates to addProduct, and the reply is addProduct's result.
C10_ValidationGate ==
    [][/\ \A c \in ProductCalls : \A productData \in ProductPayloads :
              createProduct(c, productData) =>
                  IF \/ "name" \notin DOMAIN productData
                     \/ ~MatchesDigits(productData.barcode.v)
                  THEN /\ productCalls'[c].pc = "done"
                       /\ productCalls'[c].reply.success = FALSE
                       /\ productCalls'[c].reply = validateProductData(productData)
                       /\ productCalls'[c].product = Undefined
                       /\ products' = products
                  ELSE /\ productCalls'[c].pc = "findOne"
                       /\ productCalls'[c].reply = Undefined
       /\ \A c \in ProductCalls :
              (productCalls[c].pc # "done" /\ productCalls'[c].pc = "done"
               /\ productCalls[c].pc # "idle")
              => /\ productCalls'[c].reply = productCalls'[c].response
                 /\ productCalls'[c].reply \in
                        {[success |-> FALSE,
                          message |-> "Product with this barcode already exists"],
                         [success |-> TRUE, message |-> "Product added successfully"]}]_vars

\* one add_new_product was turned away by validation and another went through
C10_Witness ==
    \E c, d \in ProductCalls :
        /\ productCalls[c].pc = "done"
        /\ productCalls[c].reply.success = FALSE
        /\ productCalls[c].product = Undefined
        /\ productCalls[d].pc = "done"
        /\ productCalls[d].reply.success = TRUE

Handled(c) == calls[c].pc # "idle"

\* the handler replied with the failed validation
Rejected(c) == Done(c) /\ ~calls[c].reply.success

NonEmptyDigitString(x) == x.t = "string" /\ MatchesDigits(x.v)

\* the validation messages that name the field barcode
BarcodeMessages ==
    {"\"barcode\" is required", "\"barcode\" must be a string",
     "\"barcode\" is not allowed to be empty",
     "'barcode' must be a string of numbers"}

\* C11: validateItemData rejects, with a message naming barcode, every payload
\* whose barcode is not a non-empty string of digits, and has no complaint
\* about a digit-only barcode; it rejects every payload without name; it
\* accepts a payload whose description and supplier are the empty string when
\* barcode, name, price and stock are valid.
C11_ItemValidation ==
    \A c \in Calls : Handled(c) =>
        LET p       == calls[c].payload
            barcode == Get(p, "barcode")
        IN  /\ ~NonEmptyDigitString(barcode) =>
                   Rejected(c) /\ calls[c].reply.message \in BarcodeMessages
            /\ NonEmptyDigitString(barcode) /\ Rejected(c) =>
                   calls[c].reply.message \notin BarcodeMessages
            /\ "name" \notin DOMAIN p => Rejected(c)
            /\ /\ DOMAIN p = {"barcode", "name", "description", "price", "stock",
                              "supplier"}
               /\ NonEmptyDigitString(barcode)
               /\ p.name.t = "string" /\ p.name.v # <<>>
               /\ p.price.t = "number" /\ p.stock.t = "number"
               /\ p.description = Str(<<>>) /\ p.supplier = Str(<<>>)
               => ~Rejected(c)

C11_Witness ==
    \E c, d, e \in Calls :
        /\ calls[c].payload = GatePayload(Str(Barcode12a4), 100)
        /\ Rejected(c)
        /\ calls[c].reply.message = "'barcode' must be a string of numbers"
        /\ calls[d].payload = GatePayload(Str(Barcode1234), 100) /\ ~Rejected(d)
        /\ calls[e].payload = EmptyTextPayload /\ ~Rejected(e)

\* the record an add_item call's filter {barcode} matches, after the step
MatchedAfter(c) ==
    findOne(inventory_db'[collectionName(calls[c].storeId)], "barcode",
            calls[c].itemData.barcode)

\* C12: an add_item that takes the increment branch refreshes updated_at: after
\* it the record's updated_at is the time of that add_item (not earlier than
\* the call's own new Date()), not the time of the record's creation.
C12_UpdatedAtRefreshed ==
    [][\A c \in Calls : AddItemUpdateOne(c) =>
           /\ MatchedAfter(c).updated_at.v >= calls[c].itemData.updated_at.v
           /\ MatchedAfter(c).updated_at # MatchedAfter(c).created_at]_vars

\* the fields an increment may change
IncrementFields == {"stock", "updated_at"}

\* C13: created_at is set when the record is inserted and is the same in every
\* later state; the increment branch leaves created_at, barcode, name,
\* description, price, supplier and variants as they were and changes only
\* stock (and, where refreshed, updated_at), whatever the payload carries.
C13_IncrementOnlyStock ==
    [][/\ \A n \in CollectionNames : \A i \in 1..Len(inventory_db[n]) :
              /\ i <= Len(inventory_db'[n])
              /\ inventory_db'[n][i].created_at = inventory_db[n][i].created_at
       /\ \A c \in Calls : AddItemInsertOne(c) =>
              LET docs == inventory_db'[collectionName(calls[c].storeId)]
              IN  docs[Len(docs)].created_at = calls[c].itemData.created_at
       /\ \A c \in Calls : AddItemUpdateOne(c) =>
              \A n \in CollectionNames :
                  /\ Len(inventory_db'[n]) = Len(inventory_db[n])
                  /\ \A i \in 1..Len(inventory_db[n]) :
                         /\ DOMAIN inventory_db'[n][i] = DOMAIN inventory_db[n][i]
                         /\ \A k \in DOMAIN inventory_db[n][i] \ IncrementFields :
                                inventory_db'[n][i][k] = inventory_db[n][i][k]]_vars

\* a record inserted from the Cola payload has been incremented by the Soda
\* payload: its stock is 15 and it still carries the Cola fields
C13_Witness ==
    \E c, d \in Calls :
        /\ Succeeded(c) /\ calls[c].payload = ColaPayload(Barcode1001, 10)
        /\ calls[c].product = Null
        /\ Succeeded(d) /\ calls[d].payload = SodaPayload
        /\ calls[d].product # Null
        /\ calls[d].storeId = calls[c].storeId
        /\ \E i \in 1..Len(Docs(calls[c].storeId)) :
               /\ Docs(calls[c].storeId)[i].stock = Num(15)
               /\ Docs(calls[c].storeId)[i].name = Str(Cola)
               /\ Docs(calls[c].storeId)[i].created_at = calls[c].itemData.created_at

\* a number held in tenths that is an integer >= 0
NonNegativeInteger(x) == x.t = "number" /\ x.v >= 0 /\ x.v % 10 = 0

\* C14: no record is created with negative stock: whenever a validated payload
\* reaches the insert branch, the record it stores has a stock that is an
\* integer >= 0.
C14_NoNegativeStock ==
    [][\A c \in Calls : AddItemInsertOne(c) =>
           LET docs == inventory_db'[collectionName(calls[c].storeId)]
           IN  NonNegativeInteger(docs[Len(docs)].stock)]_vars

\* a payload field as insertOne stores it
Stored(x) == IF x = Undefined THEN Null ELSE x

\* C15: an add_item for a barcode absent from the store's collection but present
\* in the shared catalog creates the record with the catalog record's name and
\* description; when the catalog holds nothing for the barcode the record is
\* created from the payload's fields alone; the add_item succeeds either way.
C15_CatalogSeeding ==
    [][\A c \in Calls : AddItemInsertOne(c) =>
           LET docs   == inventory_db'[collectionName(calls[c].storeId)]
               record == docs[Len(docs)]
               entry  == findOne(products, "barcode", calls[c].itemData.barcode)
           IN  /\ calls'[c].pc = "done" /\ calls'[c].reply.success
               /\ entry # Null =>
                      /\ record.name = entry.name
                      /\ record.description = entry.description
               /\ entry = Null =>
                      /\ record.name = Stored(Get(calls[c].payload, "name"))
                      /\ record.description =
                             Stored(Get(calls[c].payload, "description"))]_vars

Failed(c) == calls[c].pc = "failed"

RECURSIVE StoredStock(_)
\* the stock of all the documents of a collection, in tenths
StoredStock(docs) ==
    IF docs = <<>> THEN 0 ELSE Head(docs).stock.v + StoredStock(Tail(docs))

\* C16: when the lookup, the insert or the increment of an add_item fails, the
\* call does not report {success: true} but ends with the error; the failing
\* step leaves the store as it was; the call does nothing further (no retry);
\* and the store holds the stock of the calls that succeeded and nothing of
\* those that failed.
C16_FailurePropagates ==
    /\ [](\A c \in Calls : Failed(c) =>
              /\ "success" \notin DOMAIN calls[c].reply
              /\ calls[c].reply = Thrown)
    /\ [](\A storeId \in StoreIds :
              StoredStock(Docs(storeId)) =
                  SumStock({c \in Calls : Succeeded(c) /\ calls[c].storeId = storeId}))
    /\ [][\A c \in Calls :
              /\ InFlight(c) /\ Failed(c)' => inventory_db' = inventory_db
              /\ Failed(c) => calls'[c] = calls[c]]_vars

\* one call failed at its insert, another at its increment
C16_Witness ==
    \E c, d \in Calls :
        /\ Failed(c) /\ calls[c].product = Null
        /\ Failed(d) /\ calls[d].product \notin {Undefined, Null}

\* the step changes one collection only, by appending one document with the
\* given stock
OneInsert(n, stock) ==
    /\ \A o \in CollectionNames \ {n} : inventory_db'[o] = inventory_db[o]
    /\ Len(inventory_db'[n]) = Len(inventory_db[n]) + 1
    /\ \A i \in 1..Len(inventory_db[n]) : inventory_db'[n][i] = inventory_db[n][i]
    /\ inventory_db'[n][Len(inventory_db'[n])].stock = stock

\* the step changes one collection only, by adding the given stock to the stock
\* of exactly one of its documents
OneIncrement(n, stock) ==
    /\ \A o \in CollectionNames \ {n} : inventory_db'[o] = inventory_db[o]
    /\ Len(inventory_db'[n]) = Len(inventory_db[n])
    /\ \E i \in 1..Len(inventory_db[n]) :
           /\ inventory_db'[n][i] =
                  [inventory_db[n][i] EXCEPT
                      !.stock = [t |-> "number", v |-> @.v + stock.v]]
           /\ \A j \in 1..Len(inventory_db[n]) :
                  j # i => inventory_db'[n][j] = inventory_db[n][j]

\* C17: each add_item call performs exactly one write: a call ends with success
\* only by the step that writes, that step is one insert when the call's lookup
\* found no record and one increment when it found one, and no other step of
\* any call changes the store.
C17_ExactlyOneWrite ==
    [][/\ \A c \in Calls : (~Done(c) /\ Done(c)' /\ calls'[c].reply.success) =>
              LET n == collectionName(calls[c].storeId)
              IN  /\ calls[c].pc \in {"insertOne", "updateOne"}
                  /\ calls[c].product = Null =>
                         OneInsert(n, calls[c].itemData.stock)
                  /\ calls[c].product # Null =>
                         OneIncrement(n, calls[c].itemData.stock)
       /\ inventory_db' # inventory_db =>
              \E c \in Calls : ~Done(c) /\ Done(c)' /\ calls'[c].reply.success]_vars

\* one call has ended by its insert and another by its increment
C17_Witness ==
    \E c, d \in Calls :
        /\ Succeeded(c) /\ calls[c].product = Null
        /\ Succeeded(d) /\ calls[d].product # Null
        /\ calls[c].storeId = calls[d].storeId

\* C18: when no add_item is in flight, for every store s and barcode b with a
\* completed add_item, get_item(s, b) returns a record whose stock is the sum
\* of the stocks of all completed add_item(s, b) calls, however those calls
\* were interleaved.
C18_ReaderConservation ==
    Quiescent =>
        \A storeId \in StoreIds : \A b \in {p.barcode.v : p \in LedgerPayloads} :
            Added(storeId, b) # {} =>
                LET reply == getItemByBarcodeOrID(inventory_db, storeId, b)
                IN  /\ reply.success
                    /\ reply.product.stock.v = SumStock(Added(storeId, b))

\* C19: no step removes a record: every collection keeps each of its documents
\* (same _id, same barcode) at its place and never gets shorter, so a barcode
\* once present in a store stays present; and a get_inventory or get_item
\* step changes nothing but the reply it produces.
C19_NoRemoval ==
    [][/\ \A n \in CollectionNames :
              /\ Len(inventory_db'[n]) >= Len(inventory_db[n])
              /\ \A i \in 1..Len(inventory_db[n]) :
                     /\ inventory_db'[n][i]._id = inventory_db[n][i]._id
                     /\ inventory_db'[n][i].barcode = inventory_db[n][i].barcode
              /\ \A b \in BarcodeValues :
                     findOne(inventory_db[n], "barcode", b) # Null =>
                         findOne(inventory_db'[n], "barcode", b) # Null
       /\ query' # query =>
              /\ inventory_db' = inventory_db
              /\ calls' = calls
              /\ oidCounter' = oidCounter
              /\ products' = products]_vars

\* a query read a store that held a record, and since then the store has
\* gained a record and still holds the one read
C19_Witness ==
    /\ query.op # "none"
    /\ Len(query.read) >= 1
    /\ Len(Docs(query.storeId)) > Len(query.read)
    /\ \A i \in 1..Len(query.read) :
           Docs(query.storeId)[i]._id = query.read[i]._id

\* a variant carrying at least a name
NamedVariant(x) ==
    /\ x.t = "object"
    /\ "name" \in DOMAIN x.v
    /\ x.v.name.t = "string" /\ x.v.name.v # <<>>

\* C20: item validation accepts a payload, valid in barcode, name, price and
\* stock, whose variants are objects carrying at least name: variant fields
\* beyond name (price, stock) do not make validation fail.
C20_VariantsAccepted ==
    \A c \in Calls : Handled(c) =>
        LET p == calls[c].payload
        IN  /\ DOMAIN p = {"barcode", "name", "price", "stock", "variants"}
            /\ NonEmptyDigitString(p.barcode)
            /\ p.name.t = "string" /\ p.name.v # <<>>
            /\ p.price.t = "number" /\ p.stock.t = "number"
            /\ p.variants.t = "array"
            /\ \A i \in 1..Len(p.variants.v) : NamedVariant(p.variants.v[i])
            => ~Rejected(c)

AlreadyExists ==
    [success |-> FALSE, message |-> "Product with this barcode already exists"]

ProductAdded == [success |-> TRUE, message |-> "Product added successfully"]

\* the products collection holds a product with the barcode of call c
InCatalog(c) ==
    \E i \in 1..Len(products) : products[i].barcode = productCalls[c].payload.barcode

\* C21: addProduct with no other call in flight: when a product with the
\* payload's barcode exists, the call ends at its lookup with {success: false,
\* 'Product with this barcode already exists'} and the products collection is
\* as it was; otherwise the lookup changes nothing, the call goes on to insert
\* exactly one product, with the payload's barcode and name, and returns
\* success.
C21_AddProductSerial ==
    [][\A c \in ProductCalls :
           /\ (productCalls[c].pc = "findOne" /\ productCalls'[c].pc # "findOne") =>
                  /\ products' = products
                  /\ IF InCatalog(c)
                     THEN /\ productCalls'[c].pc = "done"
                          /\ productCalls'[c].reply = AlreadyExists
                     ELSE productCalls'[c].pc = "insertOne"
           /\ (productCalls[c].pc = "insertOne" /\ productCalls'[c].pc # "insertOne") =>
                  /\ ~InCatalog(c)
                  /\ Len(products') = Len(products) + 1
                  /\ \A i \in 1..Len(products) : products'[i] = products[i]
                  /\ products'[Len(products')].barcode = productCalls[c].payload.barcode
                  /\ products'[Len(products')].name = productCalls[c].payload.name
                  /\ productCalls'[c].pc = "done"
                  /\ productCalls'[c].reply = ProductAdded]_vars

\* one call inserted the product and a later call for the same barcode was
\* refused, the collection still holding the one product
C21_Witness ==
    \E c, d \in ProductCalls :
        /\ productCalls[c].pc = "done" /\ productCalls[c].reply = ProductAdded
        /\ productCalls[d].pc = "done" /\ productCalls[d].reply = AlreadyExists
        /\ productCalls[d].payload.barcode = productCalls[c].payload.barcode
        /\ Len(products) = 1

\* C22: under any interleaving of concurrent add_new_product handlers the
\* products collection never holds two products with the same barcode, and of
\* the addProduct calls for one barcode at most one returns success.
C22_CatalogUniqueBarcode ==
    /\ \A i, j \in 1..Len(products) :
           i # j => products[i].barcode # products[j].barcode
    /\ \A c, d \in ProductCalls :
           (/\ c # d
            /\ productCalls[c].pc = "done" /\ productCalls[c].reply = ProductAdded
            /\ productCalls[d].pc = "done" /\ productCalls[d].reply = ProductAdded)
           => productCalls[c].payload.barcode # productCalls[d].payload.barcode

====
